---- MODULE Spec2Model ----
(***************************************************************************)
(* Model of the question-answering pipeline of rag_pipeline.py (class      *)
(* RAGPipeline: _generate_code, _sanitize_code, _execute_code,             *)
(* _generate_answer, ask) and of the history loop of app.py.               *)
(*                                                                         *)
(* Representation of Python values:                                        *)
(*   - a str is a Text: the sequence of its lines (what str.split("\n")    *)
(*     returns), each line the sequence of its space-separated tokens;     *)
(*     the empty str is << <<>> >>;                                        *)
(*   - an Optional value is a sequence of length 0 (None) or 1;            *)
(*   - a DataFrame is an object of the heap, named by an id <<owner,       *)
(*     table>>; its value is the set of its row labels.                    *)
(***************************************************************************)
EXTENDS Integers, Sequences, FiniteSets, TLC

(***************************************************************************)
(* Bounds of the model.                                                    *)
(***************************************************************************)
\* largest retry budget (max_retries) a caller passes to ask
MaxBudget == 3
\* longest transcript given to the history loop of app.py
MaxTranscript == 5

(***************************************************************************)
(* Python values.                                                          *)
(***************************************************************************)
None == <<>>
Some(v) == <<v>>

EmptyText == << <<>> >>

\* An execution result: an int, a str (a Text), or a DataFrame of the
\* namespace or a column (a Series) of one, named by its table.
IntVal(n) == [tag |-> "int", n |-> n, s |-> EmptyText, t |-> ""]
StrVal(s) == [tag |-> "str", n |-> 0, s |-> s, t |-> ""]
FrameVal(t) == [tag |-> "frame", n |-> 0, s |-> EmptyText, t |-> t]
SeriesVal(t) == [tag |-> "series", n |-> 0, s |-> EmptyText, t |-> t]

TableNames == {"clients", "invoices", "line_items"}

\* The tables as load_dataframes returns them (row labels only).
LoadedTables ==
    [t \in TableNames |->
        CASE t = "clients" -> {0, 1}
          [] t = "invoices" -> {0}
          [] OTHER -> {0}]

\* The names bound in _SAFE_BUILTINS when the module is imported.
SafeBuiltinNames ==
    {"abs", "all", "any", "bool", "dict", "enumerate", "filter", "float",
     "frozenset", "getattr", "hasattr", "int", "isinstance", "issubclass",
     "iter", "len", "list", "map", "max", "min", "next", "print", "range",
     "reversed", "round", "set", "slice", "sorted", "str", "sum", "tuple",
     "type", "zip",
     "Exception", "ValueError", "TypeError", "KeyError", "IndexError",
     "AttributeError", "ZeroDivisionError", "RuntimeError",
     "True", "False", "None"}

\* The library objects bound in every namespace, with the attributes that
\* generated code has added to them (none at import).
LibNames == {"pd", "np", "datetime"}
FreshLibs == [l \in LibNames |-> {}]

(***************************************************************************)
(* Texts.                                                                  *)
(***************************************************************************)
\* str.strip() on a Text: leading and trailing blank lines are whitespace.
RECURSIVE lstrip(_)
lstrip(text) ==
    IF Len(text) > 1 /\ Head(text) = <<>> THEN lstrip(Tail(text)) ELSE text

RECURSIVE rstrip(_)
rstrip(text) ==
    IF Len(text) > 1 /\ text[Len(text)] = <<>>
    THEN rstrip(SubSeq(text, 1, Len(text) - 1))
    ELSE text

strip(text) == rstrip(lstrip(text))

\* A token that holds the fence marker, the three backquote characters of a
\* fenced code block, written FENCE here (a string of this module cannot
\* hold a backquote): the marker alone, or followed by a language name.
IsFence(tok) == tok \in {"FENCE", "FENCEpython"}

\* text.startswith(fence)
StartsWithFence(text) == Head(text) # <<>> /\ IsFence(Head(text)[1])

\* The lines of text that hold a fence token, and the position of the last
\* fence token of a line.
FenceLines(text) ==
    {j \in 1..Len(text) : \E k \in 1..Len(text[j]) : IsFence(text[j][k])}

Max(S) == CHOOSE x \in S : \A y \in S : y <= x

LastFenceToken(line) == Max({k \in 1..Len(line) : IsFence(line[k])})

\* text.rsplit(fence, 1)[0]: the text before the last fence, the whole text
\* when it holds none.
BeforeLastFence(text) ==
    IF FenceLines(text) = {}
    THEN text
    ELSE LET j == Max(FenceLines(text))
         IN  SubSeq(text, 1, j - 1)
                \o << SubSeq(text[j], 1, LastFenceToken(text[j]) - 1) >>

(***************************************************************************)
(* _generate_code, lines 104-108: the completion text to the code.         *)
(***************************************************************************)
\* content.strip(), then the fence wrapper removed when the text starts with
\* one. split("\n", 1)[1] raises IndexError when the stripped text is one line.
ExtractCode(content) ==
    LET code == strip(content)
    IN  IF StartsWithFence(code)
        THEN IF Len(code) = 1
             THEN [raised |-> Some("IndexError"), code |-> EmptyText]
             ELSE [raised |-> None, code |-> BeforeLastFence(Tail(code))]
        ELSE [raised |-> None, code |-> code]

(***************************************************************************)
(* _sanitize_code: _IMPORT_RE.sub("", code), with                          *)
(* _IMPORT_RE = ^\s*(import |from \S+ import ) in MULTILINE mode.          *)
(***************************************************************************)
\* A line on which _IMPORT_RE matches at its start: the keyword, a space and
\* so at least one more token.
IsImportLine(line) ==
    \/ Len(line) >= 2 /\ line[1] = "import"
    \/ Len(line) >= 4 /\ line[1] = "from" /\ line[3] = "import"

\* What the substitution leaves of such a line: the match is removed, the
\* rest of the line stays.
StripImport(line) ==
    IF line[1] = "import" THEN Tail(line) ELSE SubSeq(line, 4, Len(line))

\* The first non-blank line of text, 0 when every line is blank.
FirstNonBlank(text) ==
    IF \A j \in 1..Len(text) : text[j] = <<>>
    THEN 0
    ELSE CHOOSE j \in 1..Len(text) :
            text[j] # <<>> /\ \A h \in 1..(j - 1) : text[h] = <<>>

\* The substitution over the lines of a text. \s* also matches the blank
\* lines before an import line, which are removed with the match; the text
\* left of a match is not scanned again.
RECURSIVE SanitizeLines(_)
SanitizeLines(text) ==
    IF text = <<>> THEN <<>>
    ELSE LET j == FirstNonBlank(text)
         IN  IF j = 0 THEN text
             ELSE IF IsImportLine(text[j])
                  THEN <<StripImport(text[j])>>
                          \o SanitizeLines(SubSeq(text, j + 1, Len(text)))
                  ELSE SubSeq(text, 1, j)
                          \o SanitizeLines(SubSeq(text, j + 1, Len(text)))

_sanitize_code(code) == SanitizeLines(code)

(***************************************************************************)
(* Evaluation of generated code by exec(code, ns).                         *)
(*                                                                         *)
(* An environment is what the statements of one execution can reach:       *)
(*   tables   the value of the DataFrame bound to each table name,         *)
(*   locals   the names the code has bound in ns, with their values,       *)
(*   builtins the names of the dict bound to __builtins__,                 *)
(*   libs     the attributes added to the objects bound to pd, np,         *)
(*            datetime.                                                    *)
(***************************************************************************)
\* The classes that "except Exception" catches, among those the statements
\* below raise. BaseException itself is not one of them.
ExceptionSubclasses ==
    {"SyntaxError", "NameError", "KeyError", "AttributeError", "ValueError",
     "ImportError"}

Raise(env, cls, msg) == [env |-> env, raised |-> Some([cls |-> cls, msg |-> msg])]
Normal(env) == [env |-> env, raised |-> None]

\* The names generated code binds in ns; locals maps each to None (unbound)
\* or to its value.
LocalNames == {"x", "result"}
NoLocals == [n \in LocalNames |-> None]

Bind(env, name, val) == [env EXCEPT !.locals[name] = Some(val)]

InLocals(env, name) == name \in LocalNames /\ env.locals[name] # None

\* A name is looked up in ns, then in the dict bound to __builtins__.
NameBound(env, name) == InLocals(env, name) \/ name \in env.builtins

\* The value of a bound name: the one in ns, or the 1 that a statement
\* stored in the builtins dict.
NameValue(env, name) ==
    IF InLocals(env, name) THEN env.locals[name][1] ELSE IntVal(1)

\* The statements generated code is made of. A line that is none of them
\* does not compile.
PlainNames == {"x", "k", "os"}

DropStatements ==
    {<<"clients.drop(0,inplace=True)">>, <<"invoices.drop(0,inplace=True)">>,
     <<"line_items.drop(0,inplace=True)">>}

DropTarget(stmt) ==
    CASE stmt = <<"clients.drop(0,inplace=True)">> -> "clients"
      [] stmt = <<"invoices.drop(0,inplace=True)">> -> "invoices"
      [] OTHER -> "line_items"

Compiles(stmt) ==
    \/ stmt = <<>>
    \/ Len(stmt) = 1 /\ stmt[1] \in PlainNames
    \/ Len(stmt) = 3 /\ stmt[1] = "result" /\ stmt[2] = "="
          /\ stmt[3] \in PlainNames \cup
                {"len(clients)", "clients", "clients['name']", "pd.k", "''"}
    \/ stmt = <<"x", "=", "1">>
    \/ stmt \in DropStatements
    \/ stmt = <<"__builtins__['k']", "=", "1">>
    \/ stmt = <<"pd.k", "=", "1">>
    \/ stmt = <<"raise", "ValueError('x')">>
    \/ stmt = <<"raise", "Exception.__base__('x')">>
    \/ Len(stmt) = 2 /\ stmt[1] = "import"

\* One statement evaluated in env: the environment after it, and the
\* exception it raised, if any.
ExecStatement(env, stmt) ==
    CASE stmt = <<>> -> Normal(env)
      [] Len(stmt) = 1 /\ stmt[1] \in PlainNames ->
            IF NameBound(env, stmt[1]) THEN Normal(env)
            ELSE Raise(env, "NameError", stmt[1])
      [] Len(stmt) = 3 /\ stmt[1] = "result" /\ stmt[3] \in PlainNames ->
            IF NameBound(env, stmt[3])
            THEN Normal(Bind(env, "result", NameValue(env, stmt[3])))
            ELSE Raise(env, "NameError", stmt[3])
      [] stmt = <<"result", "=", "len(clients)">> ->
            Normal(Bind(env, "result", IntVal(Cardinality(env.tables["clients"]))))
      [] stmt = <<"result", "=", "clients">> ->
            Normal(Bind(env, "result", FrameVal("clients")))
      [] stmt = <<"result", "=", "clients['name']">> ->
            Normal(Bind(env, "result", SeriesVal("clients")))
      [] stmt = <<"result", "=", "''">> ->
            Normal(Bind(env, "result", StrVal(EmptyText)))
      [] stmt = <<"result", "=", "pd.k">> ->
            IF "k" \in env.libs["pd"]
            THEN Normal(Bind(env, "result", IntVal(1)))
            ELSE Raise(env, "AttributeError", "k")
      [] stmt = <<"x", "=", "1">> -> Normal(Bind(env, "x", IntVal(1)))
      [] stmt \in DropStatements ->
            IF 0 \in env.tables[DropTarget(stmt)]
            THEN Normal([env EXCEPT !.tables[DropTarget(stmt)] = @ \ {0}])
            ELSE Raise(env, "KeyError", "0")
      [] stmt = <<"__builtins__['k']", "=", "1">> ->
            Normal([env EXCEPT !.builtins = @ \cup {"k"}])
      [] stmt = <<"pd.k", "=", "1">> ->
            Normal([env EXCEPT !.libs["pd"] = @ \cup {"k"}])
      [] stmt = <<"raise", "ValueError('x')">> -> Raise(env, "ValueError", "x")
      [] stmt = <<"raise", "Exception.__base__('x')">> ->
            Raise(env, "BaseException", "x")
      [] OTHER -> Raise(env, "ImportError", "__import__")

\* The SyntaxError that compile raises on code with a line that does not
\* compile: it carries the text of the first such line.
SyntaxErrorOf(code_) ==
    [cls |-> "SyntaxError", msg |-> "invalid syntax",
     text |-> code_[CHOOSE j \in 1..Len(code_) :
                       /\ ~Compiles(code_[j])
                       /\ \A h \in 1..(j - 1) : Compiles(code_[h])]]

\* traceback.format_exc() of an exception: never the empty text. The trace
\* of a SyntaxError quotes the line it was raised on, a caret under it.
format_exc(e) ==
    IF e.cls = "SyntaxError"
    THEN << <<"Traceback", "(most", "recent", "call", "last):">>,
            e.text,
            <<"^">>,
            <<e.cls \o ":", e.msg>>,
            <<>> >>
    ELSE << <<"Traceback", "(most", "recent", "call", "last):">>,
            <<e.cls \o ":", e.msg>>,
            <<>> >>

\* The except clause of _execute_code, line 134.
CaughtByExcept(cls) == cls \in ExceptionSubclasses

\* ns.get("result", <the placeholder>), line 133. The placeholder reads
\* "No result variable was set.", with result between backquotes.
Placeholder == << <<"No", "result", "variable", "was", "set.">> >>

\* Mutant of NsGetResult: ns.get("result") with no default, so None.
NsGetResultNoDefault(locals_) ==
    IF locals_["result"] # None THEN locals_["result"][1]
    ELSE StrVal(<< <<"None">> >>)

NsGetResult(locals_) ==
    IF locals_["result"] # None THEN locals_["result"][1]
    ELSE StrVal(Placeholder)

(***************************************************************************)
(* ask, lines 177-182: the execution result as text.                       *)
(***************************************************************************)
RECURSIVE SortedSeq(_)
SortedSeq(S) ==
    IF S = {} THEN <<>>
    ELSE LET m == CHOOSE x \in S : \A y \in S : x <= y
         IN  <<m>> \o SortedSeq(S \ {m})

\* DataFrame.to_string(index=False): a header line, then one line for each
\* row in order, without its label column; an empty frame prints as one
\* line that says so.
FrameToString(t, rows) ==
    IF rows = {}
    THEN << <<"Empty", "DataFrame", t>> >>
    ELSE << <<t \o "_columns">> >>
            \o [j \in 1..Cardinality(rows) |->
                    <<t \o "_row", ToString(SortedSeq(rows)[j])>>]

\* Series.to_string(): one line for each row, its label first.
SeriesToString(t, rows) ==
    IF rows = {}
    THEN << <<"Series([],", ")">> >>
    ELSE [j \in 1..Cardinality(rows) |->
            <<ToString(SortedSeq(rows)[j]), t \o "_name">>]

\* The isinstance dispatch. rows are the rows of the frame the result is, or
\* is a column of.
RenderResult(val, rows) ==
    CASE val.tag = "frame" -> FrameToString(val.t, rows)
      [] val.tag = "series" -> SeriesToString(val.t, rows)
      [] val.tag = "int" -> << <<ToString(val.n)>> >>
      [] OTHER -> val.s

(***************************************************************************)
(* Inputs: questions, histories, completion texts.                         *)
(***************************************************************************)
Q1 == << <<"List", "all", "clients">> >>
Q2 == << <<"Which", "of", "those", "are", "in", "the", "UK?">> >>
Questions == {Q1, Q2}

\* A Turn of an earlier exchange.
Turn1 ==
    [question |-> Q1,
     answer |-> << <<"There", "are", "2", "clients.">> >>,
     code |-> << <<"result", "=", "clients">> >>,
     data |-> FrameToString("clients", {0, 1})]

\* The history argument of ask: None, or a list of Turns.
HistoryArgs == {None, Some(<<Turn1>>)}

\* Texts the Completion Service returns for code synthesis.
CodeContents ==
    { << <<"result", "=", "len(clients)">> >>,
      << <<"FENCEpython">>, <<"result", "=", "clients">>, <<"FENCE">> >>,
      << <<"FENCEpython">> >>,
      << <<"result", "=", "clients['name']">> >>,
      << <<"import", "os">>, <<"result", "=", "len(clients)">> >>,
      << <<"raise", "ValueError('x')">> >>,
      << <<"raise", "Exception.__base__('x')">> >>,
      << <<"x", "=", "1">> >>,
      << <<>>, <<"result", "=", "x">>, <<>> >>,
      EmptyText,
      << <<"clients.drop(0,inplace=True)">>, <<"result", "=", "len(clients)">> >>,
      << <<"__builtins__['k']", "=", "1">> >>,
      << <<"result", "=", "k">> >>,
      << <<"pd.k", "=", "1">> >>,
      << <<"result", "=", "pd.k">> >>,
      << <<"result", "=", "''">> >>,
      << <<"result", "=">> >> }

\* Texts it returns for answer synthesis.
AnswerContents ==
    { << <<>>, <<"There", "are", "2", "clients.">>, <<>> >>,
      << <<"The", "data", "is", "empty.">> >> }

\* The fixed answer of the exhaustion response, lines 187-190.
Apology ==
    << <<"Sorry,", "I", "couldn't", "retrieve", "the", "data.", "Try",
         "rephrasing", "your", "question.">> >>

\* a + b for two strs: the last line of a and the first of b are one line.
Concat(a, b) ==
    SubSeq(a, 1, Len(a) - 1) \o <<a[Len(a)] \o b[1]>> \o Tail(b)

\* The corrective prompt, lines 166-169.
fix_prompt(last_error, question) ==
    Concat(Concat(Concat(Concat(
        << <<"The", "previous", "code", "raised", "an", "error:">>, <<>> >>,
        last_error),
        << <<>>, <<>>, <<"Original", "question:">> >>),
        question),
        << <<>>, <<>>, <<"Please", "fix", "the", "code.">> >>)

(***************************************************************************)
(* State.                                                                  *)
(***************************************************************************)
\* The callers that share the Pipeline Instance: chat sessions, each one
\* thread of the server.
Sessions == {"s1", "s2"}

\* Owner of the canonical tables self.dfs.
Pipeline == "pipeline"

HeapIds == (Sessions \cup {Pipeline}) \X TableNames

VARIABLES
    heap,           \* the DataFrame objects: HeapIds -> set of row labels
    SAFE_BUILTINS,  \* the keys of the module-level dict _SAFE_BUILTINS
    libs,           \* attributes added to the modules pd, np, datetime
    pc,             \* where each caller is in ask
    question,       \* ask's arguments and locals, per caller
    history,
    max_retries,
    iter,           \* iterations of the for loop started
    last_error,
    code,
    data_str,
    ns,             \* _execute_code's namespace
    prog,           \* the sanitized code under exec, and the next line of it
    ip,
    result,         \* what _execute_code returned: (result, error)
    error,
    ret,            \* what ask returned, None before
    exc,            \* the exception that left ask, None if none
    calls,          \* log: the Completion Service calls of this ask
    attempts,       \* log: the executions of this ask
    messages,       \* app.py: st.session_state.messages, the transcript
    chat_history,   \* app.py: the history loop's list of Turns
    i,              \* app.py: the history loop's index into messages
    apc,            \* where the history loop is
    fragment,       \* _sanitize_code alone: its argument
    sanitized,      \* what it returned, call after call
    gen_question,   \* _generate_code's message assembly alone: arguments,
    gen_history,
    gen_messages,   \* the list messages
    gen_turn,       \* the Turns of history the for loop has passed
    gen_pc,
    api_key,        \* app.py: the sidebar's credential and model
    model,
    cache,          \* st.cache_resource's store for get_pipeline
    pipeline,       \* app.py: the instance get_pipeline returned
    run,            \* where the script run of app.py is
    asked           \* log: the questions submitted and how ask ended

shared == <<heap, SAFE_BUILTINS, libs>>
askvars == <<question, history, max_retries, iter, last_error, code, data_str>>
execs == <<ns, prog, ip, result, error>>
logs == <<calls, attempts>>
sanvars == <<fragment, sanitized>>
genvars == <<gen_question, gen_history, gen_messages, gen_turn, gen_pc>>
chatvars == <<api_key, model, cache, pipeline, run, asked>>
sidevars == <<sanvars, genvars, chatvars>>
appvars == <<messages, chat_history, i, apc, sidevars>>
pipevars == <<shared, pc, askvars, execs, ret, exc, logs>>
vars == <<pipevars, appvars>>

NoNs == [tab |-> [t \in TableNames |-> <<Pipeline, t>>], locals |-> NoLocals]

InitPipeline ==
    /\ heap = [id \in HeapIds |->
                  IF id[1] = Pipeline THEN LoadedTables[id[2]] ELSE {}]
    /\ SAFE_BUILTINS = SafeBuiltinNames
    /\ libs = FreshLibs
    /\ pc = [p \in Sessions |-> "idle"]
    /\ question = [p \in Sessions |-> EmptyText]
    /\ history = [p \in Sessions |-> <<>>]
    /\ max_retries = [p \in Sessions |-> 0]
    /\ iter = [p \in Sessions |-> 0]
    /\ last_error = [p \in Sessions |-> None]
    /\ code = [p \in Sessions |-> EmptyText]
    /\ data_str = [p \in Sessions |-> EmptyText]
    /\ ns = [p \in Sessions |-> NoNs]
    /\ prog = [p \in Sessions |-> <<>>]
    /\ ip = [p \in Sessions |-> 0]
    /\ result = [p \in Sessions |-> None]
    /\ error = [p \in Sessions |-> None]
    /\ ret = [p \in Sessions |-> None]
    /\ exc = [p \in Sessions |-> None]
    /\ calls = [p \in Sessions |-> <<>>]
    /\ attempts = [p \in Sessions |-> <<>>]

\* No transcript: the history loop is not running.
InitApp ==
    /\ messages = <<>>
    /\ chat_history = <<>>
    /\ i = 0
    /\ apc = "done"

\* Nothing sanitized or assembled on its own, no script run of app.py.
InitSanitizer ==
    /\ fragment = EmptyText
    /\ sanitized = <<>>

InitGenerate ==
    /\ gen_question = EmptyText
    /\ gen_history = <<>>
    /\ gen_messages = <<>>
    /\ gen_turn = 0
    /\ gen_pc = "done"

InitChat ==
    /\ api_key = ""
    /\ model = ""
    /\ cache = {}
    /\ pipeline = None
    /\ run = "off"
    /\ asked = <<>>

Init == InitPipeline /\ InitApp /\ InitSanitizer /\ InitGenerate /\ InitChat

(***************************************************************************)
(* ask and the methods it calls.                                           *)
(***************************************************************************)
\* ask is entered: lines 155-160.
Call(p, questions, historyArgs, budgets) ==
    /\ pc[p] = "idle"
    /\ \E q \in questions, h \in historyArgs, n \in budgets :
          /\ question' = [question EXCEPT ![p] = q]
          /\ history' = [history EXCEPT ![p] = IF h = None THEN <<>> ELSE h[1]]
          /\ max_retries' = [max_retries EXCEPT ![p] = n]
    /\ iter' = [iter EXCEPT ![p] = 0]
    /\ last_error' = [last_error EXCEPT ![p] = None]
    /\ code' = [code EXCEPT ![p] = EmptyText]
    /\ data_str' = [data_str EXCEPT ![p] = EmptyText]
    /\ pc' = [pc EXCEPT ![p] = "loop"]
    /\ UNCHANGED <<appvars, shared, execs, ret, exc, logs>>

\* Mutant of RetriesRemain: the loop body runs once whatever the budget.
RetriesRemainAtLeastOnce(p) == iter[p] = 0 \/ iter[p] < max_retries[p]

\* Mutant of RetriesRemain: the loop bound is off by one.
RetriesRemainOffByOne(p) == iter[p] <= max_retries[p]

\* for _ in range(max_retries), line 162: another iteration starts.
RetriesRemain(p) == iter[p] < max_retries[p]

\* Mutant of CodePrompt: every code synthesis is given the question alone.
CodePromptVerbatim(p) == question[p]

\* The prompt of the next code synthesis, lines 163-170.
CodePrompt(p) ==
    IF last_error[p] = None
    THEN question[p]
    ELSE fix_prompt(last_error[p][1], question[p])

CodeCall(p, failed, content) ==
    [kind |-> "code", prompt |-> CodePrompt(p), history |-> history[p],
     data |-> EmptyText, failed |-> failed, content |-> content]

\* Mutant of Propagate: ask swallows the exception and goes on with the loop.
PropagateSwallowed(p, cls) ==
    /\ pc' = [pc EXCEPT ![p] = "loop"]
    /\ UNCHANGED exc

\* An exception leaves ask.
Propagate(p, cls) ==
    /\ pc' = [pc EXCEPT ![p] = "raised"]
    /\ exc' = [exc EXCEPT ![p] = Some(cls)]

\* One iteration starts with _generate_code (lines 82-108) on the question
\* or on the corrective prompt. The Completion Service raises, or returns a
\* text from which the code is taken.
GenerateCode(p, contents) ==
    /\ pc[p] = "loop"
    /\ RetriesRemain(p)
    /\ iter' = [iter EXCEPT ![p] = @ + 1]
    /\ \/ /\ calls' = [calls EXCEPT ![p] = Append(@, CodeCall(p, TRUE, None))]
          /\ Propagate(p, "APIError")
          /\ UNCHANGED code
       \/ \E content \in contents :
             /\ calls' = [calls EXCEPT ![p] =
                            Append(@, CodeCall(p, FALSE, Some(content)))]
             /\ IF ExtractCode(content).raised # None
                THEN /\ Propagate(p, ExtractCode(content).raised[1])
                     /\ UNCHANGED code
                ELSE /\ code' = [code EXCEPT ![p] = ExtractCode(content).code]
                     /\ pc' = [pc EXCEPT ![p] = "execute"]
                     /\ UNCHANGED exc
    /\ UNCHANGED <<appvars, shared, question, history, max_retries, last_error,
                   data_str, execs, ret, attempts>>

\* Mutant of CopyOf: the namespace is given the canonical table itself.
CopyOfShared(p, t) == <<Pipeline, t>>

\* The object that self.dfs[t].copy() returns to caller p: a new DataFrame.
CopyOf(p, t) == <<p, t>>

Attempt(p, raised, caught, res, err, rows) ==
    [code |-> code[p], prog |-> prog[p], raised |-> raised, caught |-> caught,
     result |-> res, error |-> err, rows |-> rows]

\* The rows of the frame a result is or is taken from, as caller p sees them.
RowsOf(p, res) ==
    IF res # None /\ res[1].tag \in {"frame", "series"}
    THEN heap[ns[p].tab[res[1].t]]
    ELSE {}

\* _execute_code returns (res, err) to ask, or lets the exception cls pass.
EndExecute(p, raised, res, err) ==
    /\ attempts' = [attempts EXCEPT ![p] =
                      Append(@, Attempt(p, raised, err # None \/ raised = None,
                                        res, err, RowsOf(p, res)))]
    /\ result' = [result EXCEPT ![p] = res]
    /\ error' = [error EXCEPT ![p] = err]
    /\ IF raised # None /\ err = None
       THEN Propagate(p, raised[1].cls)
       ELSE /\ pc' = [pc EXCEPT ![p] = "executed"]
            /\ UNCHANGED exc

\* What the try statement of lines 130-135 makes of an exception.
Catch(p, e) ==
    IF CaughtByExcept(e.cls)
    THEN EndExecute(p, Some(e), None, Some(format_exc(e)))
    ELSE EndExecute(p, Some(e), None, None)

\* _execute_code, lines 122-132: the code is sanitized, the namespace is
\* built with a copy of each table, and exec compiles the code.
ExecuteBegin(p) ==
    /\ pc[p] = "execute"
    /\ prog' = [prog EXCEPT ![p] = _sanitize_code(code[p])]
    /\ ns' = [ns EXCEPT ![p] =
                [tab |-> [t \in TableNames |-> CopyOf(p, t)],
                 locals |-> NoLocals]]
    /\ heap' = [id \in HeapIds |->
                  IF \E t \in TableNames : id = CopyOf(p, t)
                  THEN heap[<<Pipeline, id[2]>>]
                  ELSE heap[id]]
    /\ ip' = [ip EXCEPT ![p] = 1]
    /\ pc' = [pc EXCEPT ![p] = "compile"]
    /\ UNCHANGED <<appvars, SAFE_BUILTINS, libs, askvars, result, error, ret,
                   exc, logs>>

\* exec compiles the whole code before it runs any of it.
ExecuteCompile(p) ==
    /\ pc[p] = "compile"
    /\ IF \A j \in 1..Len(prog[p]) : Compiles(prog[p][j])
       THEN /\ pc' = [pc EXCEPT ![p] = "running"]
            /\ UNCHANGED <<result, error, exc, attempts>>
       ELSE Catch(p, SyntaxErrorOf(prog[p]))
    /\ UNCHANGED <<appvars, shared, askvars, ns, prog, ip, ret, calls>>

\* What the statements of caller p's execution reach.
EnvOf(p) ==
    [tables |-> [t \in TableNames |-> heap[ns[p].tab[t]]],
     locals |-> ns[p].locals,
     builtins |-> SAFE_BUILTINS,
     libs |-> libs]

\* exec runs the next statement of the code.
ExecuteStatement(p) ==
    /\ pc[p] = "running"
    /\ ip[p] <= Len(prog[p])
    /\ LET out == ExecStatement(EnvOf(p), prog[p][ip[p]])
       IN  /\ heap' = [id \in HeapIds |->
                         IF \E t \in TableNames : ns[p].tab[t] = id
                         THEN out.env.tables[id[2]]
                         ELSE heap[id]]
           /\ SAFE_BUILTINS' = out.env.builtins
           /\ libs' = out.env.libs
           /\ ns' = [ns EXCEPT ![p].locals = out.env.locals]
           /\ IF out.raised = None
              THEN /\ ip' = [ip EXCEPT ![p] = @ + 1]
                   /\ UNCHANGED <<pc, result, error, exc, attempts>>
              ELSE /\ Catch(p, out.raised[1])
                   /\ UNCHANGED ip
    /\ UNCHANGED <<appvars, askvars, prog, ret, calls>>

\* The code ran to its end: line 133.
ExecuteReturn(p) ==
    /\ pc[p] = "running"
    /\ ip[p] > Len(prog[p])
    /\ EndExecute(p, None, Some(NsGetResult(ns[p].locals)), None)
    /\ UNCHANGED <<appvars, shared, askvars, ns, prog, ip, ret, calls>>

\* The namespace of an execution is dropped, and its copies with it.
DropNamespace(p) ==
    /\ ns' = [ns EXCEPT ![p] = NoNs]
    /\ prog' = [prog EXCEPT ![p] = <<>>]
    /\ ip' = [ip EXCEPT ![p] = 0]
    /\ heap' = [id \in HeapIds |-> IF id[1] = p THEN {} ELSE heap[id]]

\* Lines 173-175: the execution failed; its trace is kept and the loop goes on.
HandleFailure(p) ==
    /\ pc[p] = "executed"
    /\ error[p] # None
    /\ last_error' = [last_error EXCEPT ![p] = error[p]]
    /\ pc' = [pc EXCEPT ![p] = "loop"]
    /\ DropNamespace(p)
    /\ UNCHANGED <<appvars, SAFE_BUILTINS, libs, question, history, max_retries, iter,
                   code, data_str, result, error, ret, exc, logs>>

\* Lines 177-182: the execution succeeded; its result is rendered.
RenderData(p) ==
    /\ pc[p] = "executed"
    /\ error[p] = None
    /\ data_str' = [data_str EXCEPT ![p] =
                      RenderResult(result[p][1], RowsOf(p, result[p]))]
    /\ pc' = [pc EXCEPT ![p] = "answer"]
    /\ DropNamespace(p)
    /\ UNCHANGED <<appvars, SAFE_BUILTINS, libs, question, history, max_retries, iter,
                   last_error, code, result, error, ret, exc, logs>>

\* Mutant of AnswerCall: the answer is asked for the prompt of the last code
\* synthesis, not for the original question.
AnswerCallOnPrompt(p, failed, content) ==
    [kind |-> "answer", prompt |-> CodePrompt(p), history |-> history[p],
     data |-> data_str[p], failed |-> failed, content |-> content]

AnswerCall(p, failed, content) ==
    [kind |-> "answer", prompt |-> question[p], history |-> history[p],
     data |-> data_str[p], failed |-> failed, content |-> content]

\* The dict ask returns on success, line 185.
SuccessResult(p, answer) ==
    [answer |-> answer, code |-> code[p], data |-> data_str[p], error |-> None]

\* Lines 184-185: _generate_answer (lines 137-153) on the question, the
\* rendered data and the history; its answer is returned.
GenerateAnswer(p, contents) ==
    /\ pc[p] = "answer"
    /\ \/ /\ calls' = [calls EXCEPT ![p] = Append(@, AnswerCall(p, TRUE, None))]
          /\ Propagate(p, "APIError")
          /\ UNCHANGED ret
       \/ \E content \in contents :
             /\ calls' = [calls EXCEPT ![p] =
                            Append(@, AnswerCall(p, FALSE, Some(content)))]
             /\ ret' = [ret EXCEPT ![p] = Some(SuccessResult(p, strip(content)))]
             /\ pc' = [pc EXCEPT ![p] = "returned"]
             /\ UNCHANGED exc
    /\ UNCHANGED <<appvars, shared, askvars, execs, attempts>>

\* Mutant of ExhaustedResult: the trace is returned as the answer.
ExhaustedResultWithTrace(p) ==
    [answer |-> IF last_error[p] = None THEN Apology ELSE last_error[p][1],
     code |-> code[p], data |-> EmptyText, error |-> last_error[p]]

\* The dict ask returns when the loop ends, lines 187-190.
ExhaustedResult(p) ==
    [answer |-> Apology, code |-> code[p], data |-> EmptyText,
     error |-> last_error[p]]

ReturnExhausted(p) ==
    /\ pc[p] = "loop"
    /\ ~RetriesRemain(p)
    /\ ret' = [ret EXCEPT ![p] = Some(ExhaustedResult(p))]
    /\ pc' = [pc EXCEPT ![p] = "returned"]
    /\ UNCHANGED <<appvars, shared, askvars, execs, exc, logs>>

\* The caller has the result or the exception of ask; the call is over.
Finish(p) ==
    /\ pc[p] \in {"returned", "raised"}
    /\ pc' = [pc EXCEPT ![p] = "idle"]
    /\ question' = [question EXCEPT ![p] = EmptyText]
    /\ history' = [history EXCEPT ![p] = <<>>]
    /\ max_retries' = [max_retries EXCEPT ![p] = 0]
    /\ iter' = [iter EXCEPT ![p] = 0]
    /\ last_error' = [last_error EXCEPT ![p] = None]
    /\ code' = [code EXCEPT ![p] = EmptyText]
    /\ data_str' = [data_str EXCEPT ![p] = EmptyText]
    /\ result' = [result EXCEPT ![p] = None]
    /\ error' = [error EXCEPT ![p] = None]
    /\ ret' = [ret EXCEPT ![p] = None]
    /\ exc' = [exc EXCEPT ![p] = None]
    /\ calls' = [calls EXCEPT ![p] = <<>>]
    /\ attempts' = [attempts EXCEPT ![p] = <<>>]
    /\ DropNamespace(p)
    /\ UNCHANGED <<appvars, SAFE_BUILTINS, libs>>

(***************************************************************************)
(* Specifications.                                                         *)
(***************************************************************************)
Budgets == -1..MaxBudget

\* The budget of a caller that passes none, line 156: app.py passes none.
DefaultMaxRetries == 2

\* One caller, asking one question after another.
Next ==
    \/ Call("s1", Questions, HistoryArgs, Budgets)
    \/ GenerateCode("s1", CodeContents)
    \/ ExecuteBegin("s1")
    \/ ExecuteCompile("s1")
    \/ ExecuteStatement("s1")
    \/ ExecuteReturn("s1")
    \/ HandleFailure("s1")
    \/ RenderData("s1")
    \/ GenerateAnswer("s1", AnswerContents)
    \/ ReturnExhausted("s1")
    \/ Finish("s1")

Spec == Init /\ [][Next]_vars

\* Texts the Completion Service returns to the sessions of SpecConc.
ConcContents ==
    { << <<"clients.drop(0,inplace=True)">>, <<"result", "=", "len(clients)">> >>,
      << <<"result", "=", "clients">> >>,
      << <<"x", "=", "1">>, <<"__builtins__['k']", "=", "1">> >>,
      << <<"result", "=", "k">> >>,
      << <<"pd.k", "=", "1">>, <<"result", "=", "x">> >> }

\* The chat sessions of app.py, each in its own thread, asking through one
\* shared Pipeline Instance (get_pipeline is cached) with the default
\* budget; their steps interleave.
NextConc ==
    \E p \in Sessions :
        \/ Call(p, {Q1}, {Some(<<>>)}, {DefaultMaxRetries})
        \/ GenerateCode(p, ConcContents)
        \/ ExecuteBegin(p)
        \/ ExecuteCompile(p)
        \/ ExecuteStatement(p)
        \/ ExecuteReturn(p)
        \/ HandleFailure(p)
        \/ RenderData(p)
        \/ GenerateAnswer(p, {<< <<"The", "data", "is", "empty.">> >>})
        \/ ReturnExhausted(p)
        \/ Finish(p)

SpecConc == Init /\ [][NextConc]_vars

(***************************************************************************)
(* The logs of one ask call.                                               *)
(***************************************************************************)
IsCodeCall(c) == c.kind = "code"
IsAnswerCall(c) == c.kind = "answer"
CodeCalls(p) == SelectSeq(calls[p], IsCodeCall)
AnswerCalls(p) == SelectSeq(calls[p], IsAnswerCall)
Last(seq) == seq[Len(seq)]

\* ask is over for caller p: it returned or an exception left it.
Terminal(p) == pc[p] \in {"returned", "raised"}

\* A code synthesis that gave ask a code to execute.
YieldedCode(c) == ~c.failed /\ ExtractCode(c.content[1]).raised = None

\* An execution in which the generated code raised, at compilation or while
\* it ran.
ExecutionFailed(a) == a.raised # None

\* C1 (as claimed). Retry bound: for every budget N >= 1, when every code
\* synthesis yields code and every execution of it fails, ask makes exactly
\* N code-generation calls and N executions, no answer synthesis, and
\* returns the exhaustion response with the trace and the non-empty code of
\* the N-th attempt.
C1_RetryBound ==
    \A p \in Sessions :
        (/\ Terminal(p)
         /\ max_retries[p] >= 1
         /\ \A j \in 1..Len(calls[p]) : YieldedCode(calls[p][j])
         /\ \A j \in 1..Len(attempts[p]) : ExecutionFailed(attempts[p][j]))
        => /\ pc[p] = "returned"
           /\ Len(CodeCalls(p)) = max_retries[p]
           /\ Len(attempts[p]) = max_retries[p]
           /\ AnswerCalls(p) = <<>>
           /\ Last(attempts[p]).error # None
           /\ Last(attempts[p]).code # EmptyText
           /\ ret[p] = Some([answer |-> Apology,
                             code |-> Last(attempts[p]).code,
                             data |-> EmptyText,
                             error |-> Last(attempts[p]).error])

\* The retry bound where every raised exception is one that the except
\* clause of _execute_code catches: what is left of C1 when the escape of
\* C5 is set aside.
RetryBoundOfCaughtFailures ==
    \A p \in Sessions :
        (/\ Terminal(p)
         /\ max_retries[p] >= 1
         /\ \A j \in 1..Len(calls[p]) : YieldedCode(calls[p][j])
         /\ \A j \in 1..Len(attempts[p]) :
               ExecutionFailed(attempts[p][j]) /\ attempts[p][j].caught)
        => /\ pc[p] = "returned"
           /\ Len(CodeCalls(p)) = max_retries[p]
           /\ Len(attempts[p]) = max_retries[p]
           /\ AnswerCalls(p) = <<>>
           /\ Last(attempts[p]).error # None
           /\ Last(attempts[p]).code # EmptyText
           /\ ret[p] = Some([answer |-> Apology,
                             code |-> Last(attempts[p]).code,
                             data |-> EmptyText,
                             error |-> Last(attempts[p]).error])

\* C2. Result shape: when ask returns under a positive budget, error is
\* absent exactly when some execution succeeded; with an error the answer is
\* the apology, data is empty and code is the last attempted code; the
\* answer is the narrated answer or the apology, never a trace.
C2_ResultShape ==
    \A p \in Sessions :
        (pc[p] = "returned" /\ max_retries[p] >= 1)
        => LET r == ret[p][1]
           IN  /\ (r.error = None)
                    <=> (\E j \in 1..Len(attempts[p]) :
                            ~ExecutionFailed(attempts[p][j]))
               /\ r.error # None
                    => /\ r.answer = Apology
                       /\ r.data = EmptyText
                       /\ r.code = Last(attempts[p]).code
                       /\ r.error = Last(attempts[p]).error
               /\ \/ r.answer = Apology
                  \/ /\ AnswerCalls(p) # <<>>
                     /\ ~Last(calls[p]).failed
                     /\ r.answer = strip(Last(calls[p]).content[1])
               /\ \A j \in 1..Len(attempts[p]) :
                     attempts[p][j].error # None
                        => r.answer # attempts[p][j].error[1]

\* Witness of C2: ask returned an error after two failed executions.
C2_Witness ==
    /\ pc["s1"] = "returned"
    /\ max_retries["s1"] >= 2
    /\ ret["s1"][1].error # None
    /\ Len(attempts["s1"]) = 2

\* C3. Success path: at the first successful execution ask stops generating
\* code, renders the result, makes one answer synthesis on the original
\* question, that data and the original history, and returns the answer,
\* the code of that attempt, the data and no error; nothing of the earlier
\* failures is in the result.
C3_SuccessPath ==
    \A p \in Sessions :
        (pc[p] = "returned" /\ max_retries[p] >= 1 /\ ret[p][1].error = None)
        => LET r == ret[p][1]
               n == Len(attempts[p])
               a == attempts[p][n]
               c == Last(calls[p])
           IN  /\ n >= 1
               /\ ~ExecutionFailed(a)
               /\ \A j \in 1..(n - 1) : ExecutionFailed(attempts[p][j])
               /\ Len(CodeCalls(p)) = n
               /\ Len(AnswerCalls(p)) = 1
               /\ IsAnswerCall(c)
               /\ c.prompt = question[p]
               /\ c.history = history[p]
               /\ c.data = RenderResult(a.result[1], a.rows)
               /\ r = [answer |-> strip(c.content[1]), code |-> a.code,
                       data |-> c.data, error |-> None]
               /\ \A j \in 1..(n - 1) :
                     attempts[p][j].error[1] \notin {r.answer, r.code, r.data}

\* Witness of C3: a success at the second attempt.
C3_Witness ==
    /\ pc["s1"] = "returned"
    /\ ret["s1"][1].error = None
    /\ Len(attempts["s1"]) = 2
    /\ ExecutionFailed(attempts["s1"][1])

\* C4. A failed Completion Service call, for code or for the answer, leaves
\* ask as an exception: it is the last call, no result is returned, and it
\* is not an attempt (every attempt is the execution of a yielded code).
C4_GenerationFailureFatal ==
    \A p \in Sessions :
        \A j \in 1..Len(calls[p]) :
            calls[p][j].failed
            => /\ j = Len(calls[p])
               /\ pc[p] = "raised"
               /\ exc[p] = Some("APIError")
               /\ ret[p] = None
               /\ Len(attempts[p]) = Len(SelectSeq(CodeCalls(p), YieldedCode))
               /\ IsCodeCall(calls[p][j]) => Len(attempts[p]) = j - 1
               /\ IsAnswerCall(calls[p][j]) => Len(attempts[p]) = j - 1

\* Witness of C4: the service failed at the corrective code synthesis.
C4_Witness ==
    /\ pc["s1"] = "raised"
    /\ Len(calls["s1"]) = 2
    /\ IsCodeCall(calls["s1"][2])
    /\ calls["s1"][2].failed
    /\ Len(attempts["s1"]) = 1

\* C5 (as claimed). Every exception raised while generated code is compiled
\* or evaluated is caught in _execute_code and reported as no result and a
\* non-empty trace; none leaves _execute_code or ask.
C5_ExecutionFailureCaught ==
    \A p \in Sessions :
        \A j \in 1..Len(attempts[p]) :
            ExecutionFailed(attempts[p][j])
            => /\ attempts[p][j].caught
               /\ attempts[p][j].result = None
               /\ attempts[p][j].error # None
               /\ attempts[p][j].error[1] # EmptyText

\* C6 (as claimed). An ask call makes at most two Completion Service calls.
C6_AtMostTwoRoundTrips ==
    \A p \in Sessions : Len(calls[p]) <= 2

\* C6 (amended). An ask call makes at most budget code syntheses (none for
\* a budget below 1) and at most one answer synthesis, so at most
\* budget + 1 Completion Service calls.
C6_RoundTripsWithinBudget ==
    \A p \in Sessions :
        /\ Len(CodeCalls(p)) <= (IF max_retries[p] > 0 THEN max_retries[p] ELSE 0)
        /\ Len(AnswerCalls(p)) <= 1
        /\ max_retries[p] > 0 => Len(calls[p]) <= max_retries[p] + 1

\* Witness of C6: budget + 1 calls, with a budget of two or more.
C6_Witness ==
    /\ max_retries["s1"] >= 2
    /\ Len(calls["s1"]) = max_retries["s1"] + 1

\* A line that binds the reserved name.
BindsResult(code_) ==
    \E j \in 1..Len(code_) :
        Len(code_[j]) = 3 /\ code_[j][1] = "result" /\ code_[j][2] = "="

\* An execution that ran to its end and never bound result.
RanWithoutResult(a) == ~ExecutionFailed(a) /\ ~BindsResult(a.prog)

\* C7. Code that runs without raising and never binds result makes
\* _execute_code return the placeholder with no error, and ask takes the
\* attempt for a success: it is the last attempt, the placeholder is the
\* data given to answer synthesis and returned, and error is absent.
C7_MissingResultIsSuccess ==
    \A p \in Sessions :
        \A j \in 1..Len(attempts[p]) :
            RanWithoutResult(attempts[p][j])
            => /\ attempts[p][j].result = Some(StrVal(Placeholder))
               /\ attempts[p][j].error = None
               /\ j = Len(attempts[p])
               /\ Len(CodeCalls(p)) = j
               /\ pc[p] \in {"executed", "answer", "returned", "raised"}
               /\ pc[p] = "answer" => data_str[p] = Placeholder
               /\ pc[p] \in {"returned", "raised"}
                    => /\ IsAnswerCall(Last(calls[p]))
                       /\ Last(calls[p]).data = Placeholder
               /\ pc[p] = "returned"
                    => /\ ret[p][1].error = None
                       /\ ret[p][1].data = Placeholder

\* Witness of C7: ask returned after code that bound nothing named result.
C7_Witness ==
    /\ pc["s1"] = "returned"
    /\ attempts["s1"] # <<>>
    /\ RanWithoutResult(Last(attempts["s1"]))
    /\ Last(attempts["s1"]).prog # EmptyText

(***************************************************************************)
(* An execution alone in a new process: the reference for isolation.       *)
(***************************************************************************)
\* What an execution reaches when nothing ran before or beside it.
FreshEnv ==
    [tables |-> LoadedTables,
     locals |-> NoLocals,
     builtins |-> SafeBuiltinNames,
     libs |-> FreshLibs]

\* The environment after the first k statements of code_ ran from env, each
\* one to its end (a statement that raises changes nothing).
RECURSIVE EnvAfter(_, _, _)
EnvAfter(env, code_, k) ==
    IF k = 0 THEN env
    ELSE ExecStatement(EnvAfter(env, code_, k - 1), code_[k]).env

\* The (result, error) that _execute_code returns for the sanitized code_
\* run alone from statement j in env; an exception that is not caught leaves
\* no pair.
RECURSIVE OutcomeFrom(_, _, _)
OutcomeFrom(env, code_, j) ==
    IF \E h \in 1..Len(code_) : ~Compiles(code_[h])
    THEN <<None, Some(format_exc(SyntaxErrorOf(code_)))>>
    ELSE IF j > Len(code_)
    THEN <<Some(NsGetResult(env.locals)), None>>
    ELSE LET out == ExecStatement(env, code_[j])
         IN  IF out.raised = None
             THEN OutcomeFrom(out.env, code_, j + 1)
             ELSE <<None, Some(format_exc(out.raised[1]))>>

\* C8. Dataset isolation: the canonical tables stay as loaded, and in every
\* interleaving each execution sees in clients, invoices and line_items the
\* loaded tables changed by its own statements only.
C8_DatasetIsolation ==
    /\ \A t \in TableNames : heap[<<Pipeline, t>>] = LoadedTables[t]
    /\ \A p \in Sessions :
          pc[p] \in {"compile", "running", "executed"}
          => \A t \in TableNames :
                heap[ns[p].tab[t]]
                    = EnvAfter(FreshEnv, prog[p], ip[p] - 1).tables[t]

\* Witness of C8: one execution has dropped a row of its clients while
\* another, begun later, is running on its own clients.
C8_Witness ==
    /\ pc["s1"] = "running"
    /\ pc["s2"] = "running"
    /\ heap[ns["s1"].tab["clients"]] # LoadedTables["clients"]
    /\ heap[ns["s2"].tab["clients"]] = LoadedTables["clients"]
    /\ ip["s2"] = 1

\* C9 (as claimed). Nothing that generated code reaches is shared mutably
\* between executions: whatever ran before or runs beside it, an execution
\* sees the builtins table and the library objects as they were at import,
\* changed by its own statements only, and so returns what it returns when
\* run alone.
C9_NoMutableSharing ==
    \A p \in Sessions :
        /\ pc[p] \in {"compile", "running"}
            => /\ SAFE_BUILTINS
                    = EnvAfter(FreshEnv, prog[p], ip[p] - 1).builtins
               /\ libs = EnvAfter(FreshEnv, prog[p], ip[p] - 1).libs
               /\ ns[p].locals = EnvAfter(FreshEnv, prog[p], ip[p] - 1).locals
        /\ pc[p] = "executed"
            => <<result[p], error[p]>> = OutcomeFrom(FreshEnv, prog[p], 1)

\* The part of C9 that the code keeps: the names an execution binds in its
\* namespace are its own.
NamespaceIsPrivate ==
    \A p \in Sessions :
        pc[p] \in {"compile", "running"}
        => \A n \in LocalNames :
              ns[p].locals[n] # None
              => \E j \in 1..(ip[p] - 1) :
                    Len(prog[p][j]) = 3 /\ prog[p][j][1] = n

(***************************************************************************)
(* app.py, lines 57-71: the History Context from the transcript.           *)
(*                                                                         *)
(* A message is [role, content, code, data]; code and data are None when   *)
(* the message has no such key. i counts from 0 as in the source, so       *)
(* msgs[i] there is messages[i + 1] here.                                  *)
(***************************************************************************)
At(msgs, k) == msgs[k + 1]

\* dict.get(key, "")
GetOrEmpty(field) == IF field = None THEN EmptyText ELSE field[1]

\* while i < len(msgs) - 1, line 61
HistoryLoopRuns(msgs, k) == k < Len(msgs) - 1

\* Mutant of IsPair: the role of the next message is not tested.
IsPairUserOnly(msgs, k) == At(msgs, k).role = "user"

\* The test of line 62.
IsPair(msgs, k) ==
    At(msgs, k).role = "user" /\ At(msgs, k + 1).role = "assistant"

\* Mutant of TurnAt: the Turn is given the answer as its code.
TurnAtAnswerAsCode(msgs, k) ==
    [question |-> At(msgs, k).content,
     answer |-> At(msgs, k + 1).content,
     code |-> At(msgs, k + 1).content,
     data |-> GetOrEmpty(At(msgs, k + 1).data)]

\* The Turn of lines 63-68.
TurnAt(msgs, k) ==
    [question |-> At(msgs, k).content,
     answer |-> At(msgs, k + 1).content,
     code |-> GetOrEmpty(At(msgs, k + 1).code),
     data |-> GetOrEmpty(At(msgs, k + 1).data)]

\* Lines 62-69: a user message and the assistant message after it make a
\* Turn, and the loop passes both.
HistoryPair ==
    /\ apc = "loop"
    /\ HistoryLoopRuns(messages, i)
    /\ IsPair(messages, i)
    /\ chat_history' = Append(chat_history, TurnAt(messages, i))
    /\ i' = i + 2
    /\ UNCHANGED <<pipevars, sidevars, messages, apc>>

\* Lines 70-71: any other message is passed alone.
HistorySkip ==
    /\ apc = "loop"
    /\ HistoryLoopRuns(messages, i)
    /\ ~IsPair(messages, i)
    /\ i' = i + 1
    /\ UNCHANGED <<pipevars, sidevars, messages, chat_history, apc>>

\* The loop ends.
HistoryDone ==
    /\ apc = "loop"
    /\ ~HistoryLoopRuns(messages, i)
    /\ apc' = "done"
    /\ UNCHANGED <<pipevars, sidevars, messages, chat_history, i>>

\* The messages a transcript may hold at position k (from 1): a user
\* message, or an assistant message with or without its code and data.
UserMessage(k) ==
    [role |-> "user", content |-> << <<"Q", ToString(k)>> >>,
     code |-> None, data |-> None]

AssistantMessage(k, debug) ==
    [role |-> "assistant", content |-> << <<"A", ToString(k)>> >>,
     code |-> IF debug THEN Some(<< <<"code", ToString(k)>> >>) ELSE None,
     data |-> IF debug THEN Some(<< <<"data", ToString(k)>> >>) ELSE None]

MessagesAt(k) ==
    {UserMessage(k), AssistantMessage(k, TRUE), AssistantMessage(k, FALSE)}

RECURSIVE TranscriptsOfLen(_)
TranscriptsOfLen(n) ==
    IF n = 0 THEN {<<>>}
    ELSE {Append(m, x) : m \in TranscriptsOfLen(n - 1), x \in MessagesAt(n)}

Transcripts == UNION {TranscriptsOfLen(n) : n \in 0..MaxTranscript}

\* The history loop on any role-tagged transcript, lines 58-60.
InitDistill ==
    /\ InitPipeline /\ InitSanitizer /\ InitGenerate /\ InitChat
    /\ messages \in Transcripts
    /\ chat_history = <<>>
    /\ i = 0
    /\ apc = "loop"

NextDistill == HistoryPair \/ HistorySkip \/ HistoryDone

SpecDistill == InitDistill /\ [][NextDistill]_vars

\* The positions (from 0) of the user messages that an assistant message
\* follows at once.
PairStarts(msgs) ==
    {k \in 0..(Len(msgs) - 2) :
        At(msgs, k).role = "user" /\ At(msgs, k + 1).role = "assistant"}

Roles(msgs) == [k \in 1..Len(msgs) |-> msgs[k].role]

\* C10. History distillation: the History Context is, in transcript order,
\* exactly the pairs (user message, the assistant message right after it),
\* one Turn each with that assistant message's answer, code and data; a user
\* message that no assistant message follows at once, the last message among
\* them, is in no Turn; [Q1,A1,Q2,A2,Q3] gives (Q1,A1),(Q2,A2).
C10_HistoryDistillation ==
    apc = "done"
    => LET starts == SortedSeq(PairStarts(messages))
       IN  /\ Len(chat_history) = Len(starts)
           /\ \A j \in 1..Len(starts) :
                 /\ chat_history[j].question = At(messages, starts[j]).content
                 /\ chat_history[j].answer = At(messages, starts[j] + 1).content
                 /\ chat_history[j].code
                       = GetOrEmpty(At(messages, starts[j] + 1).code)
                 /\ chat_history[j].data
                       = GetOrEmpty(At(messages, starts[j] + 1).data)
           /\ \A k \in 0..(Len(messages) - 1) :
                 (/\ At(messages, k).role = "user"
                  /\ \/ k = Len(messages) - 1
                     \/ At(messages, k + 1).role # "assistant")
                 => \A j \in 1..Len(chat_history) :
                       chat_history[j].question # At(messages, k).content
           /\ Roles(messages)
                 = <<"user", "assistant", "user", "assistant", "user">>
              => chat_history
                    = <<TurnAt(messages, 0), TurnAt(messages, 2)>>

\* Witness of C10: the loop is over on [Q1,A1,Q2,A2,Q3].
C10_Witness ==
    /\ apc = "done"
    /\ Roles(messages) = <<"user", "assistant", "user", "assistant", "user">>
    /\ Len(chat_history) = 2

(***************************************************************************)
(* _sanitize_code on its own: every fragment of a few lines, sanitized     *)
(* once and then again.                                                    *)
(***************************************************************************)
MaxFragmentLines == 3

\* The lines a fragment is made of: blank, the two import forms, an import
\* form whose remainder is again one, the bare keyword and a statement.
FragmentLines ==
    { <<>>,
      <<"import", "os">>,
      <<"from", "a", "import", "b">>,
      <<"import", "import", "os">>,
      <<"import">>,
      <<"x", "=", "1">> }

RECURSIVE FragmentsOfLen(_)
FragmentsOfLen(n) ==
    IF n = 0 THEN {<<>>}
    ELSE {Append(f, l) : f \in FragmentsOfLen(n - 1), l \in FragmentLines}

Fragments == UNION {FragmentsOfLen(n) : n \in 1..MaxFragmentLines}

InitSanitize ==
    /\ InitPipeline /\ InitApp /\ InitGenerate /\ InitChat
    /\ fragment \in Fragments
    /\ sanitized = <<>>

\* Line 118 on the fragment.
SanitizeOnce ==
    /\ sanitized = <<>>
    /\ sanitized' = <<_sanitize_code(fragment)>>
    /\ UNCHANGED <<pipevars, messages, chat_history, i, apc, genvars,
                   chatvars, fragment>>

\* Line 118 on what it returned.
SanitizeAgain ==
    /\ Len(sanitized) = 1
    /\ sanitized' = Append(sanitized, _sanitize_code(sanitized[1]))
    /\ UNCHANGED <<pipevars, messages, chat_history, i, apc, genvars,
                   chatvars, fragment>>

NextSanitize == SanitizeOnce \/ SanitizeAgain

SpecSanitize == InitSanitize /\ [][NextSanitize]_vars

\* The fragment without its import lines, every other line as it was. A
\* fragment of import lines only leaves the empty text.
WithoutImportLines(text) ==
    LET kept == SelectSeq(text, LAMBDA l : ~IsImportLine(l))
    IN  IF kept = <<>> THEN EmptyText ELSE kept

HasImportForm(text) == \E j \in 1..Len(text) : IsImportLine(text[j])

\* C11 (as claimed). Sanitizer removes import lines only: what
\* _sanitize_code returns is the fragment with every import line (import X,
\* from X import Y) removed in full and every other line, blank lines
\* included, unchanged and in the same order.
C11_RemovesImportLinesOnly ==
    sanitized # <<>> => sanitized[1] = WithoutImportLines(fragment)

\* C12 (as claimed). Sanitization is idempotent: sanitizing what
\* _sanitize_code returned returns it again; and a fragment without a line
\* that starts with an import form is returned unchanged.
C12_Idempotent ==
    /\ Len(sanitized) = 2 => sanitized[2] = sanitized[1]
    /\ (sanitized # <<>> /\ ~HasImportForm(fragment))
          => sanitized[1] = fragment

\* The second half of C12 alone.
UnchangedWithoutImportForm ==
    (sanitized # <<>> /\ ~HasImportForm(fragment)) => sanitized[1] = fragment

\* What C11 and C12 would have of a sanitizer that removed the whole line:
\* the remainder of an import line stays in the text,
ImportRemainderStays ==
    /\ fragment = << <<"import", "os">>, <<"x", "=", "1">> >>
    /\ sanitized # <<>>
    /\ sanitized[1] = << <<"os">>, <<"x", "=", "1">> >>

\* and where that remainder is itself an import form, the second pass
\* removes more.
SecondPassRemovesMore ==
    /\ fragment = << <<"import", "import", "os">> >>
    /\ sanitized = << << <<"import", "os">> >>, << <<"os">> >> >>

(***************************************************************************)
(* The prompts of one ask call.                                            *)
(***************************************************************************)
\* The lines of a text that are not blank.
LinesOf(text) == {text[j] : j \in 1..Len(text)} \ {<<>>}

\* text holds every line of part.
ContainsText(text, part) ==
    LinesOf(part) # {} /\ LinesOf(part) \subseteq LinesOf(text)

\* C13. Corrective prompt: the first code synthesis of an ask call is given
\* the question verbatim; every later one follows an execution that
\* returned an error trace and is given the corrective prompt made of that
\* trace and the question, without the trace of an earlier attempt and
\* with no line of the failed code but what the trace itself quotes (the
\* line of a SyntaxError); every code synthesis is given the History
\* Context ask was called with; and one code synthesis, no more, follows
\* each failure that the loop has iterations left for.
C13_CorrectivePrompt ==
    \A p \in Sessions :
        LET cc == CodeCalls(p)
            at == attempts[p]
        IN  /\ Len(cc) \in {Len(at), Len(at) + 1}
            /\ \A j \in 1..Len(cc) :
                  /\ cc[j].history = history[p]
                  /\ j = 1 => cc[j].prompt = question[p]
                  /\ j > 1 =>
                        /\ at[j - 1].error # None
                        /\ cc[j].prompt =
                              fix_prompt(at[j - 1].error[1], question[p])
                        /\ ContainsText(cc[j].prompt, at[j - 1].error[1])
                        /\ LinesOf(at[j - 1].code) \cap LinesOf(cc[j].prompt)
                              \subseteq LinesOf(at[j - 1].error[1])
                        /\ \A h \in 1..(j - 2) :
                              at[h].error # at[j - 1].error
                                 => ~ContainsText(cc[j].prompt, at[h].error[1])
            /\ \A j \in 1..Len(at) :
                  (/\ at[j].error # None
                   /\ j < max_retries[p]
                   /\ j < Len(at) \/ pc[p] \notin {"executed", "loop"})
                  => Len(cc) >= j + 1

\* Witness of C13: a third code synthesis after two executions that failed
\* with different traces, in an ask call that was given a history.
C13_Witness ==
    LET cc == CodeCalls("s1")
        at == attempts["s1"]
    IN  /\ Len(cc) = 3
        /\ history["s1"] # <<>>
        /\ at[1].error # None
        /\ at[2].error # None
        /\ at[1].error # at[2].error
        /\ at[2].code # EmptyText

(***************************************************************************)
(* The protocol of one ask call, read off its position and its logs.       *)
(***************************************************************************)
\* The order of the steps: code syntheses first and the answer synthesis, if
\* any, last; an execution under way has its own code synthesis before it;
\* the loop goes on only after failures; the answer is asked for once, after
\* a success that ends the executions.
StepsInOrder(p) ==
    LET cc == CodeCalls(p)
        ac == AnswerCalls(p)
        at == attempts[p]
    IN  /\ Len(ac) <= 1
        /\ \A j \in 1..Len(cc) : IsCodeCall(calls[p][j])
        /\ \A j \in 1..(Len(at) - 1) : at[j].error # None
        /\ pc[p] \in {"execute", "compile", "running"}
              => /\ Len(cc) = Len(at) + 1
                 /\ ~Last(cc).failed
                 /\ ac = <<>>
        /\ pc[p] = "executed" => Len(cc) = Len(at) /\ at # <<>> /\ ac = <<>>
        /\ pc[p] = "loop"
              => /\ Len(cc) = Len(at)
                 /\ ac = <<>>
                 /\ at # <<>> => Last(at).error # None
        /\ pc[p] = "answer"
              => /\ Len(cc) = Len(at)
                 /\ ac = <<>>
                 /\ at # <<>>
                 /\ Last(at).error = None /\ Last(at).raised = None
        /\ ac # <<>>
              => /\ IsAnswerCall(Last(calls[p]))
                 /\ pc[p] \in {"returned", "raised"}
                 /\ Len(cc) = Len(at)
                 /\ at # <<>>
                 /\ Last(at).error = None /\ Last(at).raised = None

\* ask returned the exhaustion response.
Exhausted(p) == pc[p] = "returned" /\ AnswerCalls(p) = <<>>

\* C14 (as claimed). Protocol order of one ask call: the steps occur in the
\* order GenerateCode, Execute, then Synthesize and Done, or Failure and
\* GenerateCode again or Exhausted; in every reachable state the executions
\* are at most budget and the corrective code syntheses at most budget - 1;
\* Exhausted is reached only after budget failures.
C14_ProtocolOrder ==
    \A p \in Sessions :
        pc[p] # "idle"
        => /\ StepsInOrder(p)
           /\ Len(attempts[p]) <= max_retries[p]
           /\ Max({Len(CodeCalls(p)) - 1, 0}) <= max_retries[p] - 1
           /\ Exhausted(p)
                 => /\ Len(attempts[p]) = max_retries[p]
                    /\ \A j \in 1..Len(attempts[p]) :
                          attempts[p][j].error # None

\* C14 (amended). The same, with the counts of a budget below 1 taken as
\* none: at most max(budget, 0) executions and max(budget - 1, 0)
\* corrective code syntheses, and Exhausted after max(budget, 0) failures,
\* which for a budget below 1 is at once.
C14_ProtocolOrderFromZero ==
    \A p \in Sessions :
        pc[p] # "idle"
        => /\ StepsInOrder(p)
           /\ Len(attempts[p]) <= Max({max_retries[p], 0})
           /\ Max({Len(CodeCalls(p)) - 1, 0}) <= Max({max_retries[p] - 1, 0})
           /\ Exhausted(p)
                 => /\ Len(attempts[p]) = Max({max_retries[p], 0})
                    /\ \A j \in 1..Len(attempts[p]) :
                          attempts[p][j].error # None

\* Witness of C14: Done after a failure, a corrective code synthesis and a
\* success, the answer synthesis being the third and last call.
C14_Witness ==
    /\ pc["s1"] = "returned"
    /\ max_retries["s1"] = 2
    /\ Len(attempts["s1"]) = 2
    /\ attempts["s1"][1].error # None
    /\ Len(calls["s1"]) = 3
    /\ IsAnswerCall(calls["s1"][3])

(***************************************************************************)
(* app.py: one chat session. Each interaction runs the script from its     *)
(* top: a change in the sidebar, or a question, for which the script       *)
(* appends the user message (line 53), builds the history (lines 58-71),   *)
(* gets the pipeline (line 75), calls ask (line 76) and appends the        *)
(* assistant message (lines 88-93). An exception that leaves ask ends the  *)
(* script run there.                                                       *)
(***************************************************************************)
\* most questions submitted in one chat session
MaxAsks == 3

\* The credential field, empty or filled, and two of the models on offer.
Keys == {"", "key1", "key2"}
Models == <<"llama-3.3-70b-versatile", "llama-3.1-8b-instant">>

\* Texts the Completion Service returns for code synthesis in the session.
ChatContents ==
    { << <<"result", "=", "len(clients)">> >>,
      << <<"raise", "ValueError('x')">> >> }

\* The script is not running: it ended, stopped at st.stop() or ended in an
\* exception.
Waiting == {"wait", "stopped", "error"}

\* RAGPipeline(api_key=_api_key, model=_model), lines 76-78: the instance
\* keeps both.
RAGPipeline(_api_key, _model) == [api_key |-> _api_key, model |-> _model]

\* The key under which st.cache_resource stores a call of get_pipeline: the
\* arguments of the parameters it hashes. It leaves out the parameters whose
\* names start with an underscore, here both.
CacheKey(_api_key, _model) == <<>>

\* get_pipeline(_api_key, _model), lines 28-30: the cached instance of the
\* key, or a new one, which is stored.
get_pipeline(_api_key, _model) ==
    IF \E e \in cache : e.key = CacheKey(_api_key, _model)
    THEN (CHOOSE e \in cache : e.key = CacheKey(_api_key, _model)).value
    ELSE RAGPipeline(_api_key, _model)

InitSession ==
    /\ InitPipeline /\ InitSanitizer /\ InitGenerate
    /\ messages = <<>>
    /\ chat_history = <<>>
    /\ i = 0
    /\ apc = "done"
    /\ api_key \in Keys
    /\ model = Models[1]
    /\ cache = {}
    /\ pipeline = None
    /\ run = "wait"
    /\ asked = <<>>

\* Lines 12-22: the user edits the credential or selects a model; the script
\* runs with no question.
ChangeSettings ==
    /\ run \in Waiting
    /\ pc["s1"] = "idle"
    /\ \E k \in Keys, m \in 1..Len(Models) :
          /\ <<k, Models[m]>> # <<api_key, model>>
          /\ api_key' = k
          /\ model' = Models[m]
    /\ run' = "wait"
    /\ UNCHANGED <<pipevars, messages, chat_history, i, apc, sanvars, genvars,
                   cache, pipeline, asked>>

\* Lines 48-51: a question without a credential stops the script.
SubmitWithoutKey ==
    /\ run \in Waiting
    /\ pc["s1"] = "idle"
    /\ api_key = ""
    /\ run' = "stopped"
    /\ UNCHANGED <<pipevars, messages, chat_history, i, apc, sanvars, genvars,
                   api_key, model, cache, pipeline, asked>>

\* Lines 48-60: a question is appended to the transcript and the history
\* loop starts.
Submit(questions) ==
    /\ run \in Waiting
    /\ pc["s1"] = "idle"
    /\ api_key # ""
    /\ Len(asked) < MaxAsks
    /\ \E q \in questions :
          /\ messages' = Append(messages,
                [role |-> "user", content |-> q, code |-> None, data |-> None])
          /\ asked' = Append(asked,
                [question |-> q, outcome |-> "pending", result |-> None,
                 last_code |-> None])
    /\ chat_history' = <<>>
    /\ i' = 0
    /\ apc' = "loop"
    /\ run' = "history"
    /\ UNCHANGED <<pipevars, sanvars, genvars, api_key, model, cache, pipeline>>

\* Line 75.
GetPipeline ==
    /\ run = "history"
    /\ apc = "done"
    /\ pipeline' = Some(get_pipeline(api_key, model))
    /\ cache' = cache \cup {[key |-> CacheKey(api_key, model),
                             value |-> get_pipeline(api_key, model)]}
    /\ run' = "ask"
    /\ UNCHANGED <<pipevars, messages, chat_history, i, apc, sanvars, genvars,
                   api_key, model, asked>>

\* Line 76: pipeline.ask(prompt, history=chat_history), with the default
\* budget.
AskCall ==
    /\ run = "ask"
    /\ Call("s1", {messages[Len(messages)].content}, {Some(chat_history)},
            {DefaultMaxRetries})

\* How ask ended, for the log.
Asked(outcome) ==
    [asked EXCEPT ![Len(asked)] =
        [question |-> @.question, outcome |-> outcome, result |-> ret["s1"],
         last_code |-> IF attempts["s1"] = <<>> \/ outcome = "raised" THEN None
                       ELSE Some(attempts["s1"][Len(attempts["s1"])].code)]]

\* Lines 88-93: ask returned; the assistant message is appended.
AskReturn ==
    /\ run = "ask"
    /\ pc["s1"] = "returned"
    /\ messages' = Append(messages,
          [role |-> "assistant",
           content |-> ret["s1"][1].answer,
           code |-> Some(ret["s1"][1].code),
           data |-> Some(ret["s1"][1].data)])
    /\ asked' = Asked("returned")
    /\ run' = "wait"
    /\ UNCHANGED <<pipevars, chat_history, i, apc, sanvars, genvars, api_key,
                   model, cache, pipeline>>

\* An exception left ask: the script run ends at line 76.
AskRaise ==
    /\ run = "ask"
    /\ pc["s1"] = "raised"
    /\ asked' = Asked("raised")
    /\ run' = "error"
    /\ UNCHANGED <<pipevars, messages, chat_history, i, apc, sanvars, genvars,
                   api_key, model, cache, pipeline>>

\* The call of ask is over.
AskOver ==
    /\ run \in Waiting
    /\ Finish("s1")

NextChat ==
    \/ ChangeSettings
    \/ SubmitWithoutKey
    \/ Submit(Questions)
    \/ HistoryPair
    \/ HistorySkip
    \/ HistoryDone
    \/ GetPipeline
    \/ AskCall
    \/ GenerateCode("s1", ChatContents)
    \/ ExecuteBegin("s1")
    \/ ExecuteCompile("s1")
    \/ ExecuteStatement("s1")
    \/ ExecuteReturn("s1")
    \/ HandleFailure("s1")
    \/ RenderData("s1")
    \/ GenerateAnswer("s1", {<< <<"There", "are", "2", "clients.">> >>})
    \/ ReturnExhausted("s1")
    \/ AskReturn
    \/ AskRaise
    \/ AskOver

SpecChat == InitSession /\ [][NextChat]_vars

\* C15 (as claimed). Pipeline cache keyed by (credential, model): the
\* instance that get_pipeline(api_key, model) returns has the credential and
\* the model of its arguments, so each question is answered by an instance
\* bound to the credential and the model selected in the sidebar, whatever
\* was selected before.
C15_CacheKeyedByCredentialAndModel ==
    run = "ask"
    => pipeline = Some([api_key |-> api_key, model |-> model])

\* What the cache holds instead: the first instance made, for every later
\* call.
FirstInstanceForAll == Cardinality(cache) <= 1

(***************************************************************************)
(* _generate_code on the text of the Completion Service, lines 104-108.    *)
(***************************************************************************)
\* The last call of caller p is a code synthesis that returned a text, and
\* the execution of its code has not ended.
CodeTextReturned(p) ==
    /\ calls[p] # <<>>
    /\ IsCodeCall(Last(calls[p]))
    /\ ~Last(calls[p]).failed
    /\ Len(attempts[p]) < Len(CodeCalls(p))

\* The code in a text: what lies between the line of the opening fence and
\* the closing fence, or the text itself when it does not begin with a fence.
CodeIn(text) ==
    IF StartsWithFence(text) THEN BeforeLastFence(Tail(text)) ELSE text

\* C16 (as claimed). Fence stripping: for every text the Completion Service
\* returns for code synthesis, _generate_code returns without raising, and
\* returns the code between the fences when the stripped text begins with a
\* fence, the stripped text as it is otherwise.
C16_FenceStripping ==
    \A p \in Sessions :
        CodeTextReturned(p)
        => /\ pc[p] # "raised"
           /\ code[p] = CodeIn(strip(Last(calls[p]).content[1]))

\* C16 without its first half: where _generate_code returns, it returns the
\* code the claim says.
FenceStrippingWhereItReturns ==
    \A p \in Sessions :
        (CodeTextReturned(p) /\ pc[p] # "raised")
        => code[p] = CodeIn(strip(Last(calls[p]).content[1]))

\* The text on which it raises: a fence and nothing after its line.
RaisesOnFenceLineAlone ==
    /\ CodeTextReturned("s1")
    /\ pc["s1"] = "raised"
    /\ exc["s1"] = Some("IndexError")
    /\ Last(calls["s1"]).content[1] = << <<"FENCEpython">> >>

(***************************************************************************)
(* How an ask call ends.                                                   *)
(***************************************************************************)
\* ask returned the success result.
Done(p) ==
    /\ pc[p] = "returned"
    /\ AnswerCalls(p) # <<>>
    /\ ret[p][1].error = None

\* An exception left ask out of _generate_code or _generate_answer.
GenerationFailure(p) ==
    /\ pc[p] = "raised"
    /\ calls[p] # <<>>
    /\ \/ Last(calls[p]).failed
       \/ CodeTextReturned(p)

\* C18 (as claimed). Termination: an ask call that is over ended in exactly
\* one of Done, Exhausted and a fatal generation failure, after at most
\* budget iterations of the loop (none for a budget below 1).
C18_EndsInOneOfThree ==
    \A p \in Sessions :
        Terminal(p)
        => /\ Done(p) \/ Exhausted(p) \/ GenerationFailure(p)
           /\ ~(Done(p) /\ Exhausted(p))
           /\ iter[p] <= Max({max_retries[p], 0})

\* What is left of C18 when the exception that escapes _execute_code (C5)
\* is set aside: every other ask call that is over ended in one of the three.
EndsInOneOfThreeUnlessEscaped ==
    \A p \in Sessions :
        (Terminal(p)
         /\ \A j \in 1..Len(attempts[p]) : attempts[p][j].caught)
        => /\ Done(p) \/ Exhausted(p) \/ GenerationFailure(p)
           /\ ~(Done(p) /\ Exhausted(p))
           /\ iter[p] <= Max({max_retries[p], 0})

\* An ask call that is not over can take a step: it never hangs.
NeverStuck ==
    pc["s1"] \in {"idle", "returned", "raised"} \/ ENABLED Next

\* C19. Non-positive budget: ask called with a budget of 0 or less makes no
\* Completion Service call and no execution, and returns the apology with
\* empty code, empty data and no error, which is the error field of a
\* success.
C19_NonPositiveBudget ==
    \A p \in Sessions :
        (pc[p] # "idle" /\ max_retries[p] <= 0)
        => /\ calls[p] = <<>>
           /\ attempts[p] = <<>>
           /\ pc[p] \in {"loop", "returned"}
           /\ pc[p] = "returned"
                 => ret[p] = Some([answer |-> Apology, code |-> EmptyText,
                                   data |-> EmptyText, error |-> None])

\* Witness of C19: ask returned under budget 0, and under a negative one.
C19_Witness ==
    /\ pc["s1"] = "returned"
    /\ max_retries["s1"] \in {0, -1}
    /\ ret["s1"][1].error = None
    /\ ret["s1"][1].answer = Apology

\* The steps of an ask call under way. Python runs the call on, and each
\* Completion Service call and each execution is taken to return or raise:
\* a step that can be taken is taken.
AskStep ==
    \/ GenerateCode("s1", CodeContents)
    \/ ExecuteBegin("s1")
    \/ ExecuteCompile("s1")
    \/ ExecuteStatement("s1")
    \/ ExecuteReturn("s1")
    \/ HandleFailure("s1")
    \/ RenderData("s1")
    \/ GenerateAnswer("s1", AnswerContents)
    \/ ReturnExhausted("s1")

SpecLive == Spec /\ WF_vars(AskStep)

\* Every ask call ends: it returns, or an exception leaves it.
EveryCallEnds == (pc["s1"] = "loop") ~> Terminal("s1")

(***************************************************************************)
(* The transcript of a chat session as history.                            *)
(***************************************************************************)
\* The Turn of a question whose ask returned.
TurnOf(e) ==
    [question |-> e.question,
     answer |-> e.result[1].answer,
     code |-> e.result[1].code,
     data |-> e.result[1].data]

AskReturned(e) == e.outcome = "returned"

\* The Turns of the questions of a log whose ask returned, in their order.
TurnsOf(log) ==
    LET returned == SelectSeq(log, AskReturned)
    IN  [j \in 1..Len(returned) |-> TurnOf(returned[j])]

\* The questions submitted before the one the script is answering.
Earlier == SubSeq(asked, 1, Len(asked) - 1)

\* C20. Transcript to history across a chat session: the History Context
\* built for a question, and given to its ask call, holds in submission
\* order exactly the earlier questions whose ask returned, each with its own
\* answer, code and data; a question whose ask raised is in none of its
\* Turns; a question whose ask ended in retry exhaustion is a Turn with the
\* apology as answer, the last failed code as code and empty data.
C20_TranscriptToHistory ==
    run = "ask"
    => /\ chat_history = TurnsOf(Earlier)
       /\ pc["s1"] # "idle" => history["s1"] = chat_history
       /\ \A j \in 1..Len(Earlier) :
             (AskReturned(Earlier[j]) /\ Earlier[j].result[1].error # None)
             => \E h \in 1..Len(chat_history) :
                   /\ chat_history[h].question = Earlier[j].question
                   /\ chat_history[h].answer = Apology
                   /\ chat_history[h].code = Earlier[j].last_code[1]
                   /\ chat_history[h].data = EmptyText

\* Witness of C20: the third question of a session is being answered; the
\* ask of the first raised and the ask of the second, a different question,
\* ended in retry exhaustion.
C20_Witness ==
    /\ run = "ask"
    /\ pc["s1"] = "loop"
    /\ Len(asked) = 3
    /\ asked[1].outcome = "raised"
    /\ asked[2].outcome = "returned"
    /\ asked[2].result[1].error # None
    /\ asked[1].question # asked[2].question
    /\ Len(chat_history) = 1

(***************************************************************************)
(* _generate_code's messages, lines 83-99, on their own. The rendered data *)
(* of a Turn is a str of thousands of characters: here it is the first len *)
(* characters of a named text, which is all that len() and a slice from    *)
(* the start tell apart.                                                   *)
(***************************************************************************)
\* most Turns in a history given to _generate_code
MaxTurns == 2

\* The bound on the data excerpt, line 92.
PreviewLimit == 2000

Str(name, n) == [of |-> name, len |-> n]

\* len(s), s[:k], and the truth value of s.
Length(s) == s.len
Slice(s, k) == Str(s.of, IF s.len < k THEN s.len ELSE k)
Truthy(s) == s.len # 0

\* The data a Turn may carry: none (the key is missing), empty, short, and
\* around the bound.
DataLengths ==
    {0, 1, PreviewLimit - 1, PreviewLimit, PreviewLimit + 1, 2 * PreviewLimit}

GenTurns ==
    {[question |-> q, code |-> << <<"result", "=", "clients">> >>, data |-> d] :
        q \in Questions,
        d \in {None} \cup {Some(Str("data", n)) : n \in DataLengths}}

RECURSIVE GenHistoriesOfLen(_)
GenHistoriesOfLen(n) ==
    IF n = 0 THEN {<<>>}
    ELSE {Append(h, t) : h \in GenHistoriesOfLen(n - 1), t \in GenTurns}

\* The history argument: None, or a list of Turns.
GenHistories ==
    {None} \cup {Some(h) : h \in UNION {GenHistoriesOfLen(n) : n \in 0..MaxTurns}}

\* CODE_GEN_SYSTEM.format(schema=self.schema), line 83.
CodeGenSystem == << <<"CODE_GEN_SYSTEM", "schema">> >>

\* A message whose content is a text.
Message(role, text) == [role |-> role, content |-> [text |-> text]]

\* Mutant of TooLong: data of the length of the bound is cut too.
TooLongFromBound(preview) == Length(preview) >= PreviewLimit

\* len(preview) > 2000, line 92.
TooLong(preview) == Length(preview) > PreviewLimit

\* Lines 92-97: the data-excerpt message, its preview cut to the bound and
\* marked as truncated when it is longer.
ExcerptMessage(preview) ==
    [role |-> "user",
     content |-> IF TooLong(preview)
                 THEN [preview |-> Slice(preview, PreviewLimit),
                       truncated |-> TRUE]
                 ELSE [preview |-> preview, truncated |-> FALSE]]

\* turn.get("data", ""), line 89.
PreviewOf(turn) == IF turn.data = None THEN Str("", 0) ELSE turn.data[1]

\* history or [], line 86.
HistoryOrEmpty(h) == IF h = None THEN <<>> ELSE h[1]

InitAssemble ==
    /\ InitPipeline /\ InitApp /\ InitSanitizer /\ InitChat
    /\ gen_question \in Questions
    /\ gen_history \in GenHistories
    /\ gen_messages = <<>>
    /\ gen_turn = 0
    /\ gen_pc = "start"

\* Lines 83-84.
AssembleSystem ==
    /\ gen_pc = "start"
    /\ gen_messages' = <<Message("system", CodeGenSystem)>>
    /\ gen_pc' = "loop"
    /\ UNCHANGED <<pipevars, messages, chat_history, i, apc, sanvars, chatvars,
                   gen_question, gen_history, gen_turn>>

\* Lines 86-97: the next Turn of the history.
AssembleTurn ==
    /\ gen_pc = "loop"
    /\ gen_turn < Len(HistoryOrEmpty(gen_history))
    /\ LET turn == HistoryOrEmpty(gen_history)[gen_turn + 1]
           preview == PreviewOf(turn)
       IN  gen_messages' =
              gen_messages
                 \o <<Message("user", turn.question),
                      Message("assistant", turn.code)>>
                 \o IF Truthy(preview) THEN <<ExcerptMessage(preview)>>
                    ELSE <<>>
    /\ gen_turn' = gen_turn + 1
    /\ UNCHANGED <<pipevars, messages, chat_history, i, apc, sanvars, chatvars,
                   gen_question, gen_history, gen_pc>>

\* Line 99: the question, after the last Turn.
AssembleQuestion ==
    /\ gen_pc = "loop"
    /\ gen_turn = Len(HistoryOrEmpty(gen_history))
    /\ gen_messages' = Append(gen_messages, Message("user", gen_question))
    /\ gen_pc' = "done"
    /\ UNCHANGED <<pipevars, messages, chat_history, i, apc, sanvars, chatvars,
                   gen_question, gen_history, gen_turn>>

NextAssemble == AssembleSystem \/ AssembleTurn \/ AssembleQuestion

SpecAssemble == InitAssemble /\ [][NextAssemble]_vars

\* A Turn has a data-excerpt message.
HasData(turn) == turn.data # None /\ Length(turn.data[1]) # 0

\* The messages of the first n Turns of a history: two for each, three for
\* each with data.
RECURSIVE MessagesOfTurns(_, _)
MessagesOfTurns(h, n) ==
    IF n = 0 THEN 0
    ELSE MessagesOfTurns(h, n - 1) + (IF HasData(h[n]) THEN 3 ELSE 2)

\* C17. History in the code-synthesis prompt: the messages are the system
\* instruction, then for each Turn of the history, in order, its question
\* (user) and its code (assistant), followed only when its data is not empty
\* by a data-excerpt message (user), then the question last; the excerpt is
\* marked as truncated exactly when the data is longer than 2000
\* characters; it then holds the first 2000 characters, and otherwise all
\* of the data.
C17_HistoryInCodePrompt ==
    LET h == HistoryOrEmpty(gen_history)
        m == gen_messages
    IN  gen_pc # "start"
        => /\ m[1] = Message("system", CodeGenSystem)
           /\ Len(m) = 1 + MessagesOfTurns(h, gen_turn)
                         + (IF gen_pc = "done" THEN 1 ELSE 0)
           /\ gen_pc = "done"
                 => /\ gen_turn = Len(h)
                    /\ m[Len(m)] = Message("user", gen_question)
           /\ \A j \in 1..gen_turn :
                 LET at == 1 + MessagesOfTurns(h, j - 1)
                     data == PreviewOf(h[j])
                 IN  /\ m[at + 1] = Message("user", h[j].question)
                     /\ m[at + 2] = Message("assistant", h[j].code)
                     /\ HasData(h[j])
                           => /\ m[at + 3].role = "user"
                              /\ m[at + 3].content.truncated
                                    <=> Length(data) > 2000
                              /\ m[at + 3].content.truncated
                                    => /\ Length(m[at + 3].content.preview) = 2000
                                       /\ m[at + 3].content.preview.of = data.of
                              /\ ~m[at + 3].content.truncated
                                    => m[at + 3].content.preview = data

\* Witness of C17: the messages for a history of two Turns, the data of the
\* first one character longer than the bound and the data of the second of
\* the length of the bound.
C17_Witness ==
    /\ gen_pc = "done"
    /\ gen_history # None
    /\ Len(gen_history[1]) = 2
    /\ Length(PreviewOf(gen_history[1][1])) = PreviewLimit + 1
    /\ Length(PreviewOf(gen_history[1][2])) = PreviewLimit
    /\ Len(gen_messages) = 8
    /\ gen_messages[4].content.truncated
    /\ ~gen_messages[7].content.truncated

====
